---- MODULE Spec2Model ----
(***************************************************************************)
(* A model of automated_SMS_Sender.py: the GUI thread loads customer data  *)
(* (load_customer_data) and runs send_sms(), any number of times.  The     *)
(* coordinator (the GUI thread executing send_sms) filters and submits     *)
(* rows to a ThreadPoolExecutor, collects the futures with as_completed,   *)
(* then polls the delivery status of every collected message SID.  The     *)
(* worker threads of the pool run send_single_sms concurrently with the    *)
(* coordinator.                                                            *)
(*                                                                         *)
(* Strings are sequences of one-character strings.  "LF" stands for the    *)
(* line feed character and "U+0663" for ARABIC-INDIC DIGIT THREE.          *)
(***************************************************************************)
EXTENDS Naturals, Sequences, FiniteSets, TLC

\* Bounds of the model.
MaxRows == 3
PoolRows == 6
FairRows == 2

\* Constants of the program.
max_workers == 5
MaxChecks == 10

None == "None"

---------------------------------------------------------------------------
(* Characters and strings *)

AsciiDigit == {"0", "1", "2", "3", "4", "5", "6", "7", "8", "9"}

\* The characters \d matches in a str pattern: every Unicode decimal digit.
UnicodeDigit == AsciiDigit \cup {"U+0663"}

\* re.match(r'^\+\d+$', phone) is not None.  $ matches at the end of the
\* string and also just before a line feed that ends the string.
is_valid_phone_number(phone) ==
    LET n == IF Len(phone) > 0 /\ phone[Len(phone)] = "LF"
             THEN Len(phone) - 1 ELSE Len(phone)
    IN  /\ n >= 2
        /\ phone[1] = "+"
        /\ \A k \in 2..n : phone[k] \in UnicodeDigit

\* The pattern of the specification, ^\+[0-9]+$ over the whole string:
\* a plus sign followed by one or more ASCII digits and nothing else.
MatchesE164Like(phone) ==
    /\ Len(phone) >= 2
    /\ phone[1] = "+"
    /\ \A k \in 2..Len(phone) : phone[k] \in AsciiDigit

\* str(row['Phone Number']): the cells of the model are text, and str() of
\* a str is that str.
Str(cell) == cell

Placeholder == <<"{", "N", "a", "m", "e", "}">>

\* str.replace(old, new) from position i on: occurrences of old are found
\* left to right in the original string, never in text already substituted.
RECURSIVE ReplaceFrom(_, _, _, _)
ReplaceFrom(s, i, old, new) ==
    IF i > Len(s) THEN <<>>
    ELSE IF i + Len(old) - 1 <= Len(s) /\ SubSeq(s, i, i + Len(old) - 1) = old
         THEN new \o ReplaceFrom(s, i + Len(old), old, new)
         ELSE <<s[i]>> \o ReplaceFrom(s, i + 1, old, new)

\* Mutant of Render: only the first occurrence is replaced, as
\* replace(old, new, 1) does.
RenderFirstOnly(template, name) ==
    LET starts == {i \in 1..Len(template) :
                     /\ i + Len(Placeholder) - 1 <= Len(template)
                     /\ SubSeq(template, i, i + Len(Placeholder) - 1) = Placeholder}
    IN  IF starts = {} THEN template
        ELSE LET i == CHOOSE k \in starts : \A m \in starts : k <= m
             IN  SubSeq(template, 1, i - 1) \o name
                   \o SubSeq(template, i + Len(Placeholder), Len(template))

\* message_template.replace("{Name}", customer_name)
Render(template, name) == ReplaceFrom(template, 1, Placeholder, name)

---------------------------------------------------------------------------
(* Inputs *)

\* The rows a sheet is made of: a well-formed number, a number without the
\* plus sign, and a plus sign followed by a digit that is not an ASCII digit.
RowAl == [Name |-> <<"A", "l">>, Phone |-> <<"+", "1">>]
RowBo == [Name |-> <<"B", "o">>, Phone |-> <<"1", "2">>]
RowDi == [Name |-> <<"D", "i">>, Phone |-> <<"+", "U+0663">>]

\* A second well-formed number, and a row of a sheet that has neither a
\* Name nor a Phone Number column.
RowCy == [Name |-> <<"C", "y">>, Phone |-> <<"+", "2">>]
RowFoo == [Foo |-> <<"x">>]

Rows == {RowAl, RowBo, RowDi}

RECURSIVE ListsUpTo(_)
ListsUpTo(n) ==
    IF n = 0 THEN {<<>>}
    ELSE LET shorter == ListsUpTo(n - 1)
         IN  shorter \cup {Append(l, r) : l \in {s \in shorter : Len(s) = n - 1}, r \in Rows}

\* The opt-out sets a run may start with: the program's own initial value
\* (empty) and one holding a well-formed number.
OptOutSets == {{}, {RowAl.Phone}}

Credentials == {<<>>, <<"x">>}
TemplateHi == <<"H", "i", " ">> \o Placeholder
TemplateTwice == Placeholder \o <<",", " ">> \o Placeholder
\* What the message box may hold: nothing, or a template that names the
\* customer twice.  The pool and the fair specification use TemplateHi.
Templates == {<<>>, TemplateTwice}

NonTerminalStatus == {"queued", "sent"}
FailedStatus == {"failed", "undelivered"}

---------------------------------------------------------------------------
(* State *)

VARIABLES
    customer_data,        \* None, or the frame read_excel() returned last
    files,                \* which spreadsheets the user can pick: the name of a collection (see Readable)
    message_entry,        \* the text in the message box of the window
    opted_out_numbers,    \* set of phone strings
    provider_sid,         \* the SID the provider assigns to the message of each row
    may_raise,            \* the rows for whose message create() may raise
    pc,                   \* where the GUI thread is: idle in the main loop, or inside send_sms()
    dialog,               \* the message box shown by the handler that runs or ran last
    message_template,
    progress_maximum,
    progress_value,
    row,                  \* the loop variable of the iterrows loop (index of the row; 0: unbound)
    futures,              \* the futures list, each with the state of its work item
    yielded,              \* indices of the futures as_completed has yielded
    message_sids,
    poll_index,           \* position of the poll loop in message_sids
    attempts,             \* fetch() calls made by the current check_message_status
    last_status,          \* what the last fetch() of the current check returned
    last_check,           \* the log line and return value of the current check, once it has returned
    fetch_raised,         \* history: some fetch() of this run has raised
    outcomes              \* history: the send-outcome log lines written for each row

vars == <<customer_data, files, message_entry, opted_out_numbers, provider_sid,
          may_raise, pc, dialog,
          message_template, progress_maximum, progress_value, row, futures,
          yielded, message_sids, poll_index, attempts, last_status, last_check,
          fetch_raised, outcomes>>

environment == <<files, message_entry, opted_out_numbers, provider_sid, may_raise>>
inputs == <<customer_data, environment>>
pollVars == <<poll_index, attempts, last_status, last_check, fetch_raised>>
poolVars == <<futures, yielded, message_sids, progress_value>>

RequiredColumns == {"Name", "Phone Number"}

\* customer_data: None, or a DataFrame with its columns and rows.
NoData == [loaded |-> FALSE, columns |-> {}, rows |-> <<>>]
Frame(columns, l) == [loaded |-> TRUE, columns |-> columns, rows |-> l]

\* A sheet with the Name and Phone Number columns.
Loaded(l) == Frame(RequiredColumns, l)

\* Sheets without the two columns, with no row and with one.
OtherSheets == {Frame({"Foo"}, <<>>), Frame({"Foo"}, <<RowFoo>>)}

\* The check of lines 39-40.
HasColumns(data) == RequiredColumns \subseteq data.columns
NoCheck == [event |-> None, sid |-> 0, name |-> <<>>, phone |-> <<>>, returned |-> FALSE]

NumRows == Len(customer_data.rows)

InitRun ==
    /\ pc = "idle"
    /\ dialog = None
    /\ message_template = <<>>
    /\ progress_maximum = 100      \* the default of ttk.Progressbar (line 212)
    /\ progress_value = 0
    /\ row = 0
    /\ futures = <<>>
    /\ yielded = {}
    /\ message_sids = <<>>
    /\ poll_index = 0
    /\ attempts = 0
    /\ last_status = None
    /\ last_check = NoCheck
    /\ fetch_raised = FALSE
    /\ outcomes = [i \in 1..NumRows |-> <<>>]

\* The collections of spreadsheets, as the frames read_excel() returns for
\* them: every sheet of up to MaxRows rows, every sheet of up to FairRows
\* rows, and the sheets of the pool specification: one of PoolRows eligible
\* rows, more than the pool has workers, one whose rows are all skipped and
\* one without the two columns.
Sheets == {Loaded(l) : l \in ListsUpTo(MaxRows)} \cup OtherSheets
ShortSheets == {Loaded(l) : l \in ListsUpTo(FairRows)} \cup OtherSheets
PoolSheets ==
    {Loaded(<<RowBo, RowCy>>),
     Loaded([i \in 1..PoolRows |-> RowAl]),
     Frame({"Foo"}, <<RowFoo>>)}

Readable ==
    CASE files = "Sheets" -> Sheets
      [] files = "ShortSheets" -> ShortSheets
      [] files = "PoolSheets" -> PoolSheets

\* The longest sheet of any specification.
SheetLimit ==
    CHOOSE n \in {MaxRows, PoolRows, FairRows} :
        \A m \in {MaxRows, PoolRows, FairRows} : n >= m

\* The program starts with customer_data = None (line 17).  The user can
\* load any sheet of up to MaxRows rows; the provider hands out a distinct
\* SID per message and any create() may raise.
Init ==
    /\ customer_data = NoData
    /\ files = "Sheets"
    /\ message_entry \in Templates
    /\ opted_out_numbers \in OptOutSets
    /\ provider_sid = [i \in 1..SheetLimit |-> i]
    /\ may_raise = 1..SheetLimit
    /\ InitRun

\* The opt-out sets of the pool specification: the program's own initial
\* value (line 18) and one holding the number of RowCy.
PoolOptOutSets == {{}, {RowCy.Phone}}

\* The provider of the pool specification (a test double) answers every
\* send with the same SID and can refuse the messages of the first two rows
\* of a sheet only.
InitPool ==
    /\ customer_data = NoData
    /\ files = "PoolSheets"
    /\ message_entry \in {<<>>, TemplateHi}
    /\ opted_out_numbers \in PoolOptOutSets
    /\ provider_sid = [i \in 1..SheetLimit |-> 1]
    /\ may_raise = {1, 2}
    /\ InitRun

---------------------------------------------------------------------------
(* The main loop and load_customer_data(), lines 25-49 and 215 *)

\* read_excel() returns a frame: customer_data is assigned (line 36) before
\* the columns are checked (lines 39-40), so a sheet that fails the check
\* stays in customer_data while the error box is shown (line 46).
LoadCustomerData ==
    /\ pc = "idle"
    /\ \E frame \in Readable :
         /\ customer_data' = frame
         /\ dialog' = IF HasColumns(frame)
                      THEN "Customer data loaded successfully!"
                      ELSE "Failed to load data"
         /\ outcomes' = [i \in 1..Len(frame.rows) |-> <<>>]
    /\ UNCHANGED <<environment, pc, message_template, progress_maximum,
                   progress_value, row, futures, yielded, message_sids, pollVars>>

\* read_excel() raises: customer_data keeps its value and the error box is
\* shown (lines 45-49).
LoadRaises ==
    /\ pc = "idle"
    /\ dialog' = "Failed to load data"
    /\ UNCHANGED <<inputs, pc, message_template, progress_maximum, progress_value,
                   row, futures, yielded, message_sids, pollVars, outcomes>>

\* send_sms() has returned or raised: the GUI thread is back in the main
\* loop.  The locals of send_sms() are gone; the globals and the progress
\* bar keep their values.  The history variables start over for the next
\* handler.
MainLoop ==
    /\ pc \in {"returned", "raised", "done"}
    /\ pc' = "idle"
    /\ dialog' = None
    /\ message_template' = <<>>
    /\ row' = 0
    /\ futures' = <<>>
    /\ yielded' = {}
    /\ message_sids' = <<>>
    /\ poll_index' = 0
    /\ attempts' = 0
    /\ last_status' = None
    /\ last_check' = NoCheck
    /\ fetch_raised' = FALSE
    /\ outcomes' = [i \in 1..NumRows |-> <<>>]
    /\ UNCHANGED <<inputs, progress_maximum, progress_value>>

---------------------------------------------------------------------------
(* send_sms(): preflight, lines 88-124 *)

RejectNoData ==
    /\ pc = "idle"
    /\ ~customer_data.loaded
    /\ dialog' = "Please load customer data first."
    /\ pc' = "returned"
    /\ UNCHANGED <<inputs, message_template, progress_maximum, progress_value,
                   row, futures, yielded, message_sids, pollVars, outcomes>>

RejectCredentials ==
    /\ pc = "idle"
    /\ customer_data.loaded
    /\ \E account_sid \in Credentials, auth_token \in Credentials,
          twilio_phone_number \in Credentials :
            account_sid = <<>> \/ auth_token = <<>> \/ twilio_phone_number = <<>>
    /\ dialog' = "Please enter all Twilio credentials."
    /\ pc' = "returned"
    /\ UNCHANGED <<inputs, message_template, progress_maximum, progress_value,
                   row, futures, yielded, message_sids, pollVars, outcomes>>

RejectTemplate ==
    /\ pc = "idle"
    /\ customer_data.loaded
    /\ message_entry = <<>>
    /\ message_template' = message_entry
    /\ dialog' = "Please enter the message text."
    /\ pc' = "returned"
    /\ UNCHANGED <<inputs, progress_maximum, progress_value,
                   row, futures, yielded, message_sids, pollVars, outcomes>>

\* Mutant of RejectAuthentication: the except clause does not return.
RejectAuthenticationAndGoOn ==
    /\ pc = "idle"
    /\ customer_data.loaded
    /\ message_entry # <<>>
    /\ message_template' = message_entry
    /\ dialog' = "Authentication Error"
    /\ progress_maximum' = Len(customer_data.rows)
    /\ pc' = IF Len(customer_data.rows) = 0 THEN "as_completed" ELSE "iterrows"
    /\ UNCHANGED <<inputs, progress_value, row, futures, yielded, message_sids,
                   pollVars, outcomes>>

\* Client(...) or client.api.accounts(...).fetch() raises.
RejectAuthentication ==
    /\ pc = "idle"
    /\ customer_data.loaded
    /\ message_entry # <<>>
    /\ message_template' = message_entry
    /\ dialog' = "Authentication Error"
    /\ pc' = "returned"
    /\ UNCHANGED <<inputs, progress_maximum, progress_value,
                   row, futures, yielded, message_sids, pollVars, outcomes>>

\* Preflight passes: the progress bar is reset, message_sids is emptied and
\* the pool is entered.  A sheet without rows goes straight to as_completed.
StartRun ==
    /\ pc = "idle"
    /\ customer_data.loaded
    /\ message_entry # <<>>
    /\ message_template' = message_entry
    /\ progress_maximum' = Len(customer_data.rows)
    /\ progress_value' = 0
    /\ message_sids' = <<>>
    /\ futures' = <<>>
    /\ dialog' = None
    /\ pc' = IF Len(customer_data.rows) = 0 THEN "as_completed" ELSE "iterrows"
    /\ UNCHANGED <<inputs, row, yielded, pollVars, outcomes>>

---------------------------------------------------------------------------
(* send_sms(): the iterrows loop, lines 130-144 *)

\* The row the next iteration binds to `row`.
NextRow == row + 1
Row(i) == customer_data.rows[i]
customer_name(i) == Row(i).Name
customer_phone(i) == Str(Row(i).Phone)

AfterIteration(i) == IF i = NumRows THEN "as_completed" ELSE "iterrows"

Log(i, line) == [outcomes EXCEPT ![i] = Append(@, line)]

\* Line 131: the sheet has no Name column (or, at line 132, no Phone Number
\* column) and row[...] raises KeyError with the first row bound.  No future
\* has been submitted, so the with block is left at once and send_sms()
\* raises; no message box is shown.
IterationRaises ==
    /\ pc = "iterrows"
    /\ ~HasColumns(customer_data)
    /\ row' = NextRow
    /\ pc' = "raised"
    /\ UNCHANGED <<inputs, dialog, message_template, progress_maximum, poolVars,
                   pollVars, outcomes>>

\* Mutant of SkipInvalid: the row is skipped without a log line.
SkipInvalidSilently ==
    /\ pc = "iterrows"
    /\ HasColumns(customer_data)
    /\ ~is_valid_phone_number(customer_phone(NextRow))
    /\ row' = NextRow
    /\ pc' = AfterIteration(NextRow)
    /\ UNCHANGED <<inputs, dialog, message_template, progress_maximum, poolVars,
                   pollVars, outcomes>>

\* Lines 134-136: the phone does not match; a warning is logged.
SkipInvalid ==
    /\ pc = "iterrows"
    /\ HasColumns(customer_data)
    /\ ~is_valid_phone_number(customer_phone(NextRow))
    /\ row' = NextRow
    /\ outcomes' = Log(NextRow, "SkippedInvalidPhone")
    /\ pc' = AfterIteration(NextRow)
    /\ UNCHANGED <<inputs, dialog, message_template, progress_maximum, poolVars, pollVars>>

\* Lines 138-140: the phone is opted out; an info line is logged.
SkipOptedOut ==
    /\ pc = "iterrows"
    /\ HasColumns(customer_data)
    /\ is_valid_phone_number(customer_phone(NextRow))
    /\ customer_phone(NextRow) \in opted_out_numbers
    /\ row' = NextRow
    /\ outcomes' = Log(NextRow, "SkippedOptedOut")
    /\ pc' = AfterIteration(NextRow)
    /\ UNCHANGED <<inputs, dialog, message_template, progress_maximum, poolVars, pollVars>>

\* The work item executor.submit() queues, with the arguments of
\* send_single_sms bound at submission.
WorkItem(i) ==
    [row |-> i,
     customer_name |-> customer_name(i),
     customer_phone |-> customer_phone(i),
     message_body |-> Render(message_template, customer_name(i)),
     state |-> "PENDING",
     returning |-> "no",
     result |-> 0]

\* Mutant of Submit: a row whose phone has already been submitted is dropped.
SubmitDeduplicated ==
    /\ pc = "iterrows"
    /\ HasColumns(customer_data)
    /\ is_valid_phone_number(customer_phone(NextRow))
    /\ customer_phone(NextRow) \notin opted_out_numbers
    /\ row' = NextRow
    /\ futures' =
         IF \E j \in 1..Len(futures) : futures[j].customer_phone = customer_phone(NextRow)
         THEN futures
         ELSE Append(futures, WorkItem(NextRow))
    /\ pc' = AfterIteration(NextRow)
    /\ UNCHANGED <<inputs, dialog, message_template, progress_maximum, yielded,
                   message_sids, progress_value, pollVars, outcomes>>

\* Lines 142-144: the body is rendered and the send is submitted to the pool.
Submit ==
    /\ pc = "iterrows"
    /\ HasColumns(customer_data)
    /\ is_valid_phone_number(customer_phone(NextRow))
    /\ customer_phone(NextRow) \notin opted_out_numbers
    /\ row' = NextRow
    /\ futures' = Append(futures, WorkItem(NextRow))
    /\ pc' = AfterIteration(NextRow)
    /\ UNCHANGED <<inputs, dialog, message_template, progress_maximum, yielded,
                   message_sids, progress_value, pollVars, outcomes>>

---------------------------------------------------------------------------
(* ThreadPoolExecutor(max_workers=5) and send_single_sms, lines 52-63 *)

Running == {j \in 1..Len(futures) : futures[j].state = "RUNNING"}
Pending == {j \in 1..Len(futures) : futures[j].state = "PENDING"}
Finished == {j \in 1..Len(futures) : futures[j].state = "FINISHED"}

\* Work items a worker thread holds inside send_single_sms.
InCreate == {j \in Running : futures[j].returning = "no"}
Returning == Running \ InCreate

\* Pending work items submitted before work item j.
QueuedBefore(j) == {k \in Pending : k < j}

\* Mutant of WorkerAvailable: one worker too many.
WorkerAvailableOffByOne(j) ==
    Cardinality(QueuedBefore(j)) + Cardinality(Running) <= max_workers

\* The pool has at most max_workers threads and each holds one work item.
\* The threads take work items off the queue oldest first, and each marks
\* the one it took RUNNING in its own time: work item j can be marked once
\* threads are left for it and for every pending item queued before it.
WorkerAvailable(j) ==
    Cardinality(QueuedBefore(j)) + Cardinality(Running) < max_workers

\* A worker marks the work item it took off the queue RUNNING and enters
\* send_single_sms, which calls client.messages.create(...) (lines 54-58).
WorkerStart ==
    \E j \in Pending :
        /\ WorkerAvailable(j)
        /\ futures' = [futures EXCEPT ![j].state = "RUNNING"]
        /\ UNCHANGED <<inputs, pc, dialog, message_template, progress_maximum, row,
                       yielded, message_sids, progress_value, pollVars, outcomes>>

\* Mutant of SendReturns: the worker stores the SID in message_sids itself.
SendReturnsAndStores ==
    \E j \in InCreate :
        /\ futures' = [futures EXCEPT ![j].returning = "sid"]
        /\ outcomes' = Log(futures[j].row, "Sent")
        /\ message_sids' =
             Append(message_sids, [message_sid |-> provider_sid[futures[j].row],
                                   customer_name |-> futures[j].customer_name,
                                   customer_phone |-> futures[j].customer_phone])
        /\ UNCHANGED <<inputs, pc, dialog, message_template, progress_maximum, row,
                       yielded, progress_value, pollVars>>

\* create() returns a message: the SID is logged (line 59) and
\* send_single_sms is about to return it (line 60).  The future is still
\* RUNNING.
SendReturns ==
    \E j \in InCreate :
        /\ futures' = [futures EXCEPT ![j].returning = "sid"]
        /\ outcomes' = Log(futures[j].row, "Sent")
        /\ UNCHANGED <<inputs, pc, dialog, message_template, progress_maximum, row,
                       yielded, message_sids, progress_value, pollVars>>

\* create() raises: the error is logged (line 62) and send_single_sms is
\* about to return None (line 63).  The future is still RUNNING.
SendRaises ==
    \E j \in InCreate :
        /\ futures[j].row \in may_raise
        /\ futures' = [futures EXCEPT ![j].returning = "None"]
        /\ outcomes' = Log(futures[j].row, "SendFailed")
        /\ UNCHANGED <<inputs, pc, dialog, message_template, progress_maximum, row,
                       yielded, message_sids, progress_value, pollVars>>

\* send_single_sms returns (line 60 or 63) and the worker sets the result of
\* the future, which becomes FINISHED.  None is the result 0 of the model,
\* falsy like None.
SetResult ==
    \E j \in Returning :
        /\ futures' = [futures EXCEPT
                         ![j].state = "FINISHED",
                         ![j].result = IF futures[j].returning = "sid"
                                       THEN provider_sid[futures[j].row]
                                       ELSE 0]
        /\ UNCHANGED <<inputs, pc, dialog, message_template, progress_maximum, row,
                       yielded, message_sids, progress_value, pollVars, outcomes>>

---------------------------------------------------------------------------
(* send_sms(): the as_completed loop, lines 146-151 *)

\* Mutant of Collect: a failed send ends the as_completed loop.
CollectStopsAtFailure ==
    /\ pc = "as_completed"
    /\ \E j \in Finished \ yielded :
         /\ yielded' = yielded \cup {j}
         /\ message_sids' =
              IF futures[j].result # 0
              THEN Append(message_sids, [message_sid |-> futures[j].result,
                                         customer_name |-> Row(row).Name,
                                         customer_phone |-> Row(row).Phone])
              ELSE message_sids
         /\ pc' = IF futures[j].result # 0 THEN pc ELSE "poll_loop"
    /\ progress_value' = progress_value + 1
    /\ UNCHANGED <<inputs, dialog, message_template, progress_maximum, row,
                   futures, pollVars, outcomes>>

\* Mutant of Collect: the result is stored whether or not it is a SID.
CollectStoresEveryResult ==
    /\ pc = "as_completed"
    /\ \E j \in Finished \ yielded :
         /\ yielded' = yielded \cup {j}
         /\ message_sids' =
              Append(message_sids, [message_sid |-> futures[j].result,
                                    customer_name |-> Row(row).Name,
                                    customer_phone |-> Row(row).Phone])
    /\ progress_value' = progress_value + 1
    /\ UNCHANGED <<inputs, pc, dialog, message_template, progress_maximum, row,
                   futures, pollVars, outcomes>>

\* Mutant of Collect: a future already yielded may be yielded again.
CollectYieldsAgain ==
    /\ pc = "as_completed"
    /\ \E j \in Finished :
         /\ yielded' = yielded \cup {j}
         /\ message_sids' =
              IF futures[j].result # 0
              THEN Append(message_sids, [message_sid |-> futures[j].result,
                                         customer_name |-> Row(row).Name,
                                         customer_phone |-> Row(row).Phone])
              ELSE message_sids
    /\ progress_value' = progress_value + 1
    /\ UNCHANGED <<inputs, pc, dialog, message_template, progress_maximum, row,
                   futures, pollVars, outcomes>>

\* Mutant of Collect: the progress bar advances for successful sends only.
CollectCountsOnlySent ==
    /\ pc = "as_completed"
    /\ \E j \in Finished \ yielded :
         /\ yielded' = yielded \cup {j}
         /\ message_sids' =
              IF futures[j].result # 0
              THEN Append(message_sids, [message_sid |-> futures[j].result,
                                         customer_name |-> Row(row).Name,
                                         customer_phone |-> Row(row).Phone])
              ELSE message_sids
         /\ progress_value' = IF futures[j].result # 0 THEN progress_value + 1
                              ELSE progress_value
    /\ UNCHANGED <<inputs, pc, dialog, message_template, progress_maximum, row,
                   futures, pollVars, outcomes>>

\* as_completed yields a finished future it has not yielded yet; its SID,
\* if any, is stored under the name and phone of `row`, the last row the
\* iterrows loop bound.
Collect ==
    /\ pc = "as_completed"
    /\ \E j \in Finished \ yielded :
         /\ yielded' = yielded \cup {j}
         /\ message_sids' =
              IF futures[j].result # 0
              THEN Append(message_sids, [message_sid |-> futures[j].result,
                                         customer_name |-> Row(row).Name,
                                         customer_phone |-> Row(row).Phone])
              ELSE message_sids
    /\ progress_value' = progress_value + 1
    /\ UNCHANGED <<inputs, pc, dialog, message_template, progress_maximum, row,
                   futures, pollVars, outcomes>>

\* Mutant of ExitPool: the status loop starts once nothing is queued,
\* without waiting for the running sends.
ExitPoolWithoutWaiting ==
    /\ pc = "as_completed"
    /\ Pending = {}
    /\ pc' = "poll_loop"
    /\ UNCHANGED <<inputs, dialog, message_template, progress_maximum, row,
                   poolVars, pollVars, outcomes>>

\* Every future has been yielded: the loop and the with block end.
ExitPool ==
    /\ pc = "as_completed"
    /\ yielded = 1..Len(futures)
    /\ pc' = "poll_loop"
    /\ UNCHANGED <<inputs, dialog, message_template, progress_maximum, row,
                   poolVars, pollVars, outcomes>>

---------------------------------------------------------------------------
(* send_sms(): the status loop, lines 154-165, and check_message_status,
   lines 66-85 *)

Current == message_sids[poll_index]

\* What a finished check_message_status leaves: the line it logged and the
\* value it returned.
Check(event, returned) ==
    [event |-> event,
     sid |-> Current.message_sid,
     name |-> Current.customer_name,
     phone |-> Current.customer_phone,
     returned |-> returned]

\* Line 154-155: the next entry of message_sids is taken and
\* check_message_status is called for it.
PollNext ==
    /\ pc = "poll_loop"
    /\ poll_index < Len(message_sids)
    /\ poll_index' = poll_index + 1
    /\ attempts' = 0
    /\ last_status' = None
    /\ last_check' = NoCheck
    /\ pc' = "check_status"
    /\ UNCHANGED <<inputs, dialog, message_template, progress_maximum, row,
                   poolVars, fetch_raised, outcomes>>

\* fetch() returns "delivered": info line, return True (lines 71-73).
FetchDelivered ==
    /\ pc = "check_status"
    /\ attempts' = attempts + 1
    /\ last_status' = "delivered"
    /\ last_check' = Check("delivered", TRUE)
    /\ pc' = "poll_loop"
    /\ UNCHANGED <<inputs, dialog, message_template, progress_maximum, row,
                   poolVars, poll_index, fetch_raised, outcomes>>

\* fetch() returns "failed" or "undelivered": error line, return False
\* (lines 74-76).
FetchFailed ==
    /\ pc = "check_status"
    /\ \E status \in FailedStatus : last_status' = status
    /\ attempts' = attempts + 1
    /\ last_check' = Check("failed", FALSE)
    /\ pc' = "poll_loop"
    /\ UNCHANGED <<inputs, dialog, message_template, progress_maximum, row,
                   poolVars, poll_index, fetch_raised, outcomes>>

\* Mutant of FetchOther: the loop runs one round too many.
FetchOtherOffByOne ==
    /\ pc = "check_status"
    /\ \E status \in NonTerminalStatus : last_status' = status
    /\ attempts' = attempts + 1
    /\ IF attempts + 1 = MaxChecks + 1
       THEN /\ last_check' = Check("unknown", FALSE)
            /\ pc' = "poll_loop"
       ELSE /\ UNCHANGED last_check
            /\ pc' = "check_status"
    /\ UNCHANGED <<inputs, dialog, message_template, progress_maximum, row,
                   poolVars, poll_index, fetch_raised, outcomes>>

\* Mutant of FetchOther: running out of rounds is logged as a failed message.
FetchOtherLogsFailure ==
    /\ pc = "check_status"
    /\ \E status \in NonTerminalStatus : last_status' = status
    /\ attempts' = attempts + 1
    /\ IF attempts + 1 = MaxChecks
       THEN /\ last_check' = Check("failed", FALSE)
            /\ pc' = "poll_loop"
       ELSE /\ UNCHANGED last_check
            /\ pc' = "check_status"
    /\ UNCHANGED <<inputs, dialog, message_template, progress_maximum, row,
                   poolVars, poll_index, fetch_raised, outcomes>>

\* Mutant of FetchOther: the rounds are not counted, so that the loop goes
\* on for as long as the status is not terminal.
FetchOtherWithoutCounting ==
    /\ pc = "check_status"
    /\ \E status \in NonTerminalStatus : last_status' = status
    /\ UNCHANGED <<inputs, pc, dialog, message_template, progress_maximum, row,
                   poolVars, poll_index, attempts, last_check, fetch_raised, outcomes>>

\* fetch() returns any other status: sleep, and either the next round of
\* the loop or, after the last round of range(10), the warning line and
\* return False (lines 77-81).
FetchOther ==
    /\ pc = "check_status"
    /\ \E status \in NonTerminalStatus : last_status' = status
    /\ attempts' = attempts + 1
    /\ IF attempts + 1 = MaxChecks
       THEN /\ last_check' = Check("unknown", FALSE)
            /\ pc' = "poll_loop"
       ELSE /\ UNCHANGED last_check
            /\ pc' = "check_status"
    /\ UNCHANGED <<inputs, dialog, message_template, progress_maximum, row,
                   poolVars, poll_index, fetch_raised, outcomes>>

\* Mutant of FetchRaises: the except clause sits inside the loop, which
\* goes on to its next round.
FetchRaisesAndRetries ==
    /\ pc = "check_status"
    /\ attempts < MaxChecks - 1
    /\ attempts' = attempts + 1
    /\ last_status' = "raised"
    /\ fetch_raised' = TRUE
    /\ UNCHANGED <<inputs, pc, dialog, message_template, progress_maximum, row,
                   poolVars, poll_index, last_check, outcomes>>

\* fetch() raises: error line, return False (lines 83-85).
FetchRaises ==
    /\ pc = "check_status"
    /\ attempts' = attempts + 1
    /\ last_status' = "raised"
    /\ last_check' = Check("check_error", FALSE)
    /\ fetch_raised' = TRUE
    /\ pc' = "poll_loop"
    /\ UNCHANGED <<inputs, dialog, message_template, progress_maximum, row,
                   poolVars, poll_index, outcomes>>

\* Lines 161-165: every entry has been checked; the run ends.
Finish ==
    /\ pc = "poll_loop"
    /\ poll_index = Len(message_sids)
    /\ dialog' = "SMS messages processed!"
    /\ pc' = "done"
    /\ UNCHANGED <<inputs, message_template, progress_maximum, row, poolVars,
                   pollVars, outcomes>>

---------------------------------------------------------------------------

Next ==
    \/ LoadCustomerData
    \/ LoadRaises
    \/ MainLoop
    \/ RejectNoData
    \/ RejectCredentials
    \/ RejectTemplate
    \/ RejectAuthentication
    \/ StartRun
    \/ IterationRaises
    \/ SkipInvalid
    \/ SkipOptedOut
    \/ Submit
    \/ WorkerStart
    \/ SendReturns
    \/ SendRaises
    \/ SetResult
    \/ Collect
    \/ ExitPool
    \/ PollNext
    \/ FetchDelivered
    \/ FetchFailed
    \/ FetchOther
    \/ FetchRaises
    \/ Finish

Spec == Init /\ [][Next]_vars

SpecPool == InitPool /\ [][Next]_vars

\* The steps of the thread that executes send_sms() once preflight passed,
\* up to its return to the main loop.
CoordinatorStep ==
    \/ IterationRaises
    \/ SkipInvalid
    \/ SkipOptedOut
    \/ Submit
    \/ Collect
    \/ ExitPool
    \/ PollNext
    \/ Finish
    \/ MainLoop

\* A call of create() ends: it returns or it raises.
SendEnds == SendReturns \/ SendRaises

\* A call of fetch() ends: it returns a status or it raises.
FetchEnds == FetchDelivered \/ FetchFailed \/ FetchOther \/ FetchRaises

\* The coordinator thread and the workers of the pool keep being
\* scheduled, and every call to the provider ends.
Fairness ==
    /\ WF_vars(CoordinatorStep)
    /\ WF_vars(WorkerStart)
    /\ WF_vars(SendEnds)
    /\ WF_vars(SetResult)
    /\ WF_vars(FetchEnds)

\* The fair specification: as Init, over sheets of up to FairRows rows.
InitFair ==
    /\ customer_data = NoData
    /\ files = "ShortSheets"
    /\ message_entry \in {<<>>, TemplateHi}
    /\ opted_out_numbers \in OptOutSets
    /\ provider_sid = [i \in 1..SheetLimit |-> i]
    /\ may_raise = 1..SheetLimit
    /\ InitRun

SpecFair == InitFair /\ [][Next]_vars /\ Fairness

---------------------------------------------------------------------------
(* Properties *)

SendOutcomes == {"Sent", "SendFailed", "SkippedInvalidPhone", "SkippedOptedOut"}

AfterPool == {"poll_loop", "check_status", "done"}

\* The futures whose send call has started (create() was called).
SendCalled == {j \in 1..Len(futures) : futures[j].state # "PENDING"}

\* The delivery outcome a finished check stands for: the info line is
\* Delivered, the "Message failed" error line is Failed, and both the
\* "status ... is unknown" warning and the "Failed to check status" error
\* leave the status undetermined.
DeliveryOutcome(check) ==
    CASE check.event = "delivered" -> "Delivered"
      [] check.event = "failed" -> "Failed"
      [] check.event \in {"unknown", "check_error"} -> "Unknown"
      [] OTHER -> None

CheckReturned == last_check.event # None

\* C1: no row ever has two send outcomes logged, and when a run that passed
\* preflight completes every row of the sheet has exactly one, which is one
\* of Sent, SendFailed, SkippedInvalidPhone and SkippedOptedOut.
C1_ExactlyOneSendOutcome ==
    /\ \A i \in 1..NumRows : Len(outcomes[i]) <= 1
    /\ pc = "done" =>
         \A i \in 1..NumRows :
             Len(outcomes[i]) = 1 /\ outcomes[i][1] \in SendOutcomes

\* A completed run over three rows with three different outcomes.
C1_Witness ==
    /\ pc = "done"
    /\ NumRows = 3
    /\ Cardinality({outcomes[i] : i \in 1..NumRows}) = 3
    /\ \E i \in 1..NumRows : outcomes[i] = <<"Sent">>
    /\ \E i \in 1..NumRows : outcomes[i] = <<"SendFailed">>

\* C2: the name and phone a delivery outcome is reported under are those of
\* a recipient whose own send outcome is Sent.
C2_DeliveryOnlyForSent ==
    CheckReturned =>
        \E i \in 1..NumRows :
            /\ Row(i).Name = last_check.name
            /\ Row(i).Phone = last_check.phone
            /\ outcomes[i] = <<"Sent">>

\* C3: the provider's send is called only for rows whose phone matches
\* ^\+[0-9]+$ and is not in the opt-out set.
C3_SendOnlyForEligible ==
    \A j \in SendCalled :
        /\ MatchesE164Like(futures[j].customer_phone)
        /\ futures[j].customer_phone \notin opted_out_numbers

\* C4: at most 5 send calls have started and not yet returned, and at most
\* 5 work items are held by workers.
C4_AtMostFiveInFlight ==
    /\ Cardinality(InCreate) <= 5
    /\ Cardinality(Running) <= 5

\* Five sends are in flight and a sixth job waits in the queue.
C4_Witness == Cardinality(InCreate) = 5 /\ Pending # {}

\* C5: a send that raised is recorded as a failed send of its own row only;
\* once the pool is left every submitted job, of a run with failures too,
\* has had its send executed and its result observed by the coordinator,
\* and every job but the failed ones has its outcome Sent.
C5_FailureIsolated ==
    /\ \A j \in 1..Len(futures) :
         (futures[j].state = "FINISHED" /\ futures[j].result = 0)
            => outcomes[futures[j].row] = <<"SendFailed">>
    /\ pc \in AfterPool =>
         /\ \A j \in 1..Len(futures) :
              futures[j].state = "FINISHED" /\ j \in yielded
         /\ \A j \in 1..Len(futures) :
              futures[j].result # 0 => outcomes[futures[j].row] = <<"Sent">>
         /\ progress_value = Len(futures)

\* A completed run in which one send failed and two others succeeded and
\* were collected.
C5_Witness ==
    /\ pc = "done"
    /\ Len(futures) = 3
    /\ futures[2].result = 0
    /\ futures[1].result # 0
    /\ futures[3].result # 0
    /\ Len(message_sids) = 2

\* C6: while a status check is running or after one has run, no send is
\* queued or in flight and every row has been iterated, so that no send
\* can start any more.
C6_PollAfterAllSends ==
    (pc = "check_status" \/ poll_index > 0) =>
        /\ Pending = {}
        /\ Running = {}
        /\ row = NumRows
        /\ pc \in AfterPool

\* A status check is fetching after three sends have returned.
C6_Witness ==
    /\ pc = "check_status"
    /\ attempts >= 1
    /\ Cardinality(Finished) = 3

\* C7: a check never makes more than 10 fetch calls, is over as soon as a
\* fetch returned a terminal status, and otherwise goes on until the 10th
\* call has returned.
C7_PollBounded ==
    /\ attempts <= 10
    /\ pc = "check_status" =>
         /\ attempts < 10
         /\ last_status \in NonTerminalStatus \cup {None}
    /\ (CheckReturned /\ last_status \in NonTerminalStatus) => attempts = 10

\* A check has run out of rounds after exactly 10 fetch calls.
C7_Witness ==
    /\ pc = "poll_loop"
    /\ CheckReturned
    /\ last_status = "queued"
    /\ attempts = 10

\* C8: a finished check is Delivered exactly when its last fetch returned
\* delivered, Failed exactly when it returned failed or undelivered, and
\* Unknown, not Failed, when all 10 fetches returned non-terminal statuses.
C8_Classification ==
    CheckReturned =>
        /\ DeliveryOutcome(last_check) \in {"Delivered", "Failed", "Unknown"}
        /\ DeliveryOutcome(last_check) = "Delivered" <=> last_status = "delivered"
        /\ DeliveryOutcome(last_check) = "Failed" <=> last_status \in FailedStatus
        /\ (last_status \in NonTerminalStatus /\ attempts = 10)
              => DeliveryOutcome(last_check) = "Unknown"
        /\ last_check.returned <=> DeliveryOutcome(last_check) = "Delivered"

\* Ten non-terminal statuses, the last one "sent", gave Unknown.
C8_Witness ==
    /\ CheckReturned
    /\ attempts = 10
    /\ last_status = "sent"
    /\ DeliveryOutcome(last_check) = "Unknown"

\* C9: after a fetch raised, the check of that message is over with the
\* outcome Unknown and no further fetch is made for it; the run goes on, and
\* when it completes every entry of message_sids has been checked.
C9_PollErrorIsolated ==
    /\ last_status = "raised" =>
         /\ pc # "check_status"
         /\ CheckReturned
         /\ DeliveryOutcome(last_check) = "Unknown"
         /\ last_check.sid = Current.message_sid
    /\ (fetch_raised /\ pc = "done") => poll_index = Len(message_sids)

\* A run has completed in which a fetch raised for an earlier message and
\* the last check, of a message other than the first, was delivered.
C9_Witness ==
    /\ pc = "done"
    /\ fetch_raised
    /\ Len(message_sids) >= 2
    /\ last_check.event = "delivered"
    /\ last_check.sid # message_sids[1].message_sid

\* C10: once the pool is left, message_sids, whose entries are checked one
\* after the other, holds exactly one entry for every send that returned a
\* SID and none for a send that failed; when the run completes each entry
\* has been checked once.
C10_OnePollPerSent ==
    /\ poll_index <= Len(message_sids)
    /\ pc \in AfterPool =>
         /\ \A j \in 1..Len(futures) :
              Cardinality({p \in 1..Len(message_sids) :
                             message_sids[p].message_sid = provider_sid[futures[j].row]})
                = IF futures[j].result # 0 THEN 1 ELSE 0
         /\ Len(message_sids) = Cardinality({j \in 1..Len(futures) : futures[j].result # 0})
    /\ pc = "done" => poll_index = Len(message_sids)

\* A completed run with one failed and one successful send: one check.
C10_Witness ==
    /\ pc = "done"
    /\ Len(futures) = 2
    /\ futures[1].result # 0
    /\ futures[2].result = 0
    /\ poll_index = 1
    /\ CheckReturned


PreflightErrors ==
    {"Please load customer data first.",
     "Please enter all Twilio credentials.",
     "Please enter the message text.",
     "Authentication Error"}

\* C11: once preflight has failed, for whichever reason, no send has been
\* submitted or called and no fetch has been made, and the run has ended.
C11_PreflightFailureSendsNothing ==
    dialog \in PreflightErrors =>
        /\ pc = "returned"
        /\ futures = <<>>
        /\ SendCalled = {}
        /\ poll_index = 0
        /\ attempts = 0
        /\ message_sids = <<>>

\* The provider rejected the credentials of a run over three eligible rows.
C11_Witness ==
    /\ dialog = "Authentication Error"
    /\ pc = "returned"
    /\ customer_data = Loaded(<<RowAl, RowAl, RowDi>>)
    /\ opted_out_numbers = {}

\* C12: a run over a loaded sheet without rows is rejected at preflight: it
\* never leaves idle for the pool.
C12_EmptySheetRejected ==
    (customer_data = Loaded(<<>>)) => pc \in {"idle", "returned"}


\* The rows the filter of the iterrows loop lets through.
PassesFilter(i) ==
    /\ HasColumns(customer_data)
    /\ is_valid_phone_number(customer_phone(i))
    /\ customer_phone(i) \notin opted_out_numbers

\* The futures yielded so far whose result is a SID.
YieldedWithSid == {j \in yielded : futures[j].result # 0}

\* C13: the coordinator observes finished jobs only, the progress value and
\* the stored SIDs count each observed job once, whether its send succeeded
\* or failed, and once the pool is left every submitted job has been
\* observed.
C13_EachJobObservedOnce ==
    /\ yielded \subseteq Finished
    /\ pc \in {"iterrows", "as_completed"} \cup AfterPool =>
         progress_value = Cardinality(yielded)
    /\ Len(message_sids) = Cardinality(YieldedWithSid)
    /\ pc \in AfterPool =>
         /\ yielded = 1..Len(futures)
         /\ progress_value = Len(futures)

\* Three jobs, one of them failed, were observed in an order that is not
\* the order of submission.
C13_Witness ==
    /\ pc = "poll_loop"
    /\ Len(futures) = 3
    /\ futures[1].result = 0
    /\ Len(message_sids) = 2
    /\ message_sids[1].message_sid = futures[3].result
    /\ message_sids[2].message_sid = futures[2].result
    /\ progress_value = 3

\* C15: every row that has been iterated and passes the filter has exactly
\* one job, rows sharing a phone number included, and every other row has
\* none; a job's send is called at most once and logs one outcome.
C15_OneSendPerEligibleRow ==
    /\ \A i \in 1..NumRows :
         Cardinality({j \in 1..Len(futures) : futures[j].row = i})
           = IF i <= row /\ PassesFilter(i) THEN 1 ELSE 0
    /\ \A j \in 1..Len(futures) :
         /\ Len(outcomes[futures[j].row])
              = IF futures[j].returning = "no" THEN 0 ELSE 1
         /\ futures[j].state = "PENDING" => futures[j].returning = "no"
         /\ futures[j].state = "FINISHED" => futures[j].returning # "no"
    /\ pc \in AfterPool =>
         Cardinality(SendCalled) = Cardinality({i \in 1..NumRows : PassesFilter(i)})

\* Three rows with the same phone number gave three finished sends.
C15_Witness ==
    /\ pc = "done"
    /\ customer_data = Loaded(<<RowAl, RowAl, RowAl>>)
    /\ Cardinality(SendCalled) = 3
    /\ \A i \in 1..3 : Len(outcomes[i]) = 1


\* The row whose message an entry of message_sids stands for.
RowOfEntry(p) ==
    CHOOSE i \in 1..NumRows : provider_sid[i] = message_sids[p].message_sid

\* C14: the per-recipient results are kept in input order: of two entries of
\* message_sids, the one of the earlier row comes first.
C14_ResultsInInputOrder ==
    \A p, q \in 1..Len(message_sids) :
        p < q => RowOfEntry(p) < RowOfEntry(q)

\* C16: no send has been called while a row is still to be filtered: the
\* whole sheet has been iterated before the first send starts.
C16_FilterBeforeFirstSend ==
    SendCalled # {} => (row = NumRows /\ pc # "iterrows")

\* C20: the progress value never exceeds the progress maximum, which a run
\* sets to the number of rows of the sheet; when the pool is left the value
\* is the number of rows that passed the filter, so that it equals the
\* maximum only if no row was skipped.
C20_ProgressCountsJobsOnly ==
    /\ progress_value <= progress_maximum
    /\ pc \notin {"idle", "returned"} => progress_maximum = NumRows
    /\ pc \in AfterPool =>
         /\ progress_value = Cardinality({i \in 1..NumRows : PassesFilter(i)})
         /\ progress_value = progress_maximum
              <=> \A i \in 1..NumRows : PassesFilter(i)

\* A run over three rows has completed with one row skipped and one send
\* failed: the progress bar stands at 2 of 3.
C20_Witness ==
    /\ pc = "done"
    /\ progress_maximum = 3
    /\ progress_value = 2
    /\ \E i \in 1..NumRows : outcomes[i] = <<"SkippedOptedOut">>
    /\ \E i \in 1..NumRows : outcomes[i] = <<"SendFailed">>


\* What the templates of the model read once every {Name} stands for name.
ExpectedBody(template, name) ==
    CASE template = TemplateHi -> <<"H", "i", " ">> \o name
      [] template = TemplateTwice -> name \o <<",", " ">> \o name
      [] OTHER -> template

\* C18: every job carries the phone and the name of its own row, and its
\* body is the template with every {Name} replaced by that name.
C18_JobCarriesOwnRecipient ==
    \A j \in 1..Len(futures) :
        /\ futures[j].customer_phone = Row(futures[j].row).Phone
        /\ futures[j].customer_name = Row(futures[j].row).Name
        /\ futures[j].message_body
             = ExpectedBody(message_template, Row(futures[j].row).Name)

\* A worker is sending "Al, Al" to the first row while the loop, which has
\* already submitted "Di, Di" for the second row, has a third row to go.
C18_Witness ==
    /\ pc = "iterrows"
    /\ message_template = TemplateTwice
    /\ customer_data = Loaded(<<RowAl, RowDi, RowAl>>)
    /\ Len(futures) = 2
    /\ futures[1].state = "RUNNING"
    /\ futures[1].message_body = <<"A", "l", ",", " ", "A", "l">>
    /\ futures[2].message_body = <<"D", "i", ",", " ", "D", "i">>


\* C19: while send_sms() runs, message_sids changes only by the coordinator
\* appending, in the as_completed loop, the SID of the one future it has just been yielded;
\* no step of a worker (a step that changes a future) touches it; and once
\* the pool is left it holds one entry per send that returned a SID.
C19_SidsAppendOnly ==
    [][ /\ (message_sids' # message_sids /\ pc' # "idle") =>
             /\ pc = "as_completed"
             /\ futures' = futures
             /\ Len(message_sids') = Len(message_sids) + 1
             /\ SubSeq(message_sids', 1, Len(message_sids)) = message_sids
             /\ \E j \in yielded' \ yielded :
                  /\ yielded' = yielded \cup {j}
                  /\ futures[j].result # 0
                  /\ message_sids'[Len(message_sids')].message_sid = futures[j].result
        /\ pc' \in AfterPool =>
             Len(message_sids')
               = Cardinality({j \in 1..Len(futures') : futures'[j].result # 0})
      ]_vars

\* The coordinator has stored two SIDs while a worker is still sending.
C19_Witness ==
    /\ pc = "as_completed"
    /\ Len(message_sids) = 2
    /\ Running # {}


\* C17: if the threads are scheduled fairly and every provider call ends, a
\* run that passed preflight reaches the end of send_sms(); from there the
\* handler only returns to the main loop, with no send and no fetch.
C17_RunCompletes ==
    /\ (pc \in {"iterrows", "as_completed"}) ~> (pc = "done")
    /\ [][pc = "done" => pc' = "idle"]_vars

====
